---- MODULE Spec2Model ----
(***************************************************************************)
(* A model of get_sentences.py: the line-driven batch pipeline that, for   *)
(* every line of a taxonomy file, searches a provider for the words of the *)
(* line and writes the English titles, headlines and passages of the       *)
(* response as one JSON array per line.                                    *)
(*                                                                         *)
(* Strings are sequences of one-character strings.  A parsed XML tree is   *)
(* the sequence of its nodes in document order, each node a record         *)
(* [tag, text, tail, parent] with parent = 0 for the root.                 *)
(***************************************************************************)
EXTENDS Integers, Sequences, FiniteSets, TLC

VARIABLES
    fs,         \* outside the program: input file, its readability, output
                \* file, and the replies the provider may give
    pc,         \* position of write_passages
    rerun,      \* FALSE in the first run, TRUE in the second run on the same input
    pos,        \* number of input lines the generator has yielded in this run
    i,          \* loop index of enumerate (0-based)
    word_list,  \* the word list of the current line
    response,   \* the value returned by search for the current line
    tree,       \* the parsed response of the current line
    passages,   \* the list returned by get_all_passages
    node,       \* the element gettext is called on
    text,       \* the string returned by gettext
    query,      \* the string returned by query_from_wordlist
    out_open,   \* result_fh is open
    log,        \* the records given to logging, in order
    requests,   \* the requests sent by search in this run, in order
    hist        \* history: what each run consumed, received and wrote

vars == <<fs, pc, rerun, pos, i, word_list, response, tree, passages, node,
          text, query, out_open, log, requests, hist>>

----------------------------------------------------------------------------
(* Bounds of the model. *)

MaxLines == 2
MaxNodes == 4
MaxWords == 3

\* The number of lines of the long taxonomy file: enough for the line of
\* index 1000.
LongLines == 1001

----------------------------------------------------------------------------
(* Strings and Python values. *)

\* Python's None where a string may stand (Element.text, Element.tail).
None == <<"<None>">>

\* The single characters the model writes out.
SP == " "
TAB == "\t"
NL == "\n"

RECURSIVE Flatten(_)
\* The concatenation of a sequence of sequences.
Flatten(ss) == IF ss = <<>> THEN <<>> ELSE Head(ss) \o Flatten(Tail(ss))

\* s[a..] (Python slice), 1-based and total.
Drop(s, n) == IF n >= Len(s) THEN <<>> ELSE SubSeq(s, n + 1, Len(s))

\* s.startswith(p)
StartsWith(s, p) == Len(p) <= Len(s) /\ SubSeq(s, 1, Len(p)) = p

Whitespace == {SP, TAB, NL, "\r"}

RECURSIVE lstrip(_)
lstrip(s) == IF s # <<>> /\ Head(s) \in Whitespace THEN lstrip(Tail(s)) ELSE s

RECURSIVE rstrip(_)
rstrip(s) ==
    IF s # <<>> /\ s[Len(s)] \in Whitespace
    THEN rstrip(SubSeq(s, 1, Len(s) - 1)) ELSE s

\* str.strip()
strip(s) == rstrip(lstrip(s))

RECURSIVE re_split(_, _)
\* re.split('[ \t]', s) with the field being read in cur: every single space
\* or tab ends a field, so a run of separators gives empty fields.
re_split(s, cur) ==
    IF s = <<>> THEN <<cur>>
    ELSE IF Head(s) \in {SP, TAB} THEN <<cur>> \o re_split(Tail(s), <<>>)
    ELSE re_split(Tail(s), Append(cur, Head(s)))

\* [x for x in re.split('[ \t]', line.strip()) if x]
words_of_line(line) == SelectSeq(re_split(strip(line), <<>>), LAMBDA x : x # <<>>)

\* ' '.join(strs) done one word at a time.
RECURSIVE join(_, _)
join(sep, strs) ==
    IF strs = <<>> THEN <<>>
    ELSE IF Len(strs) = 1 THEN strs[1]
    ELSE strs[1] \o sep \o join(sep, Tail(strs))

\* A bug of query_from_wordlist: the marker is put once, before the query.
query_from_wordlist_marker_once(wordlist) ==
    IF wordlist = <<>> THEN <<>> ELSE <<"+">> \o join(<<SP>>, wordlist)

\* A bug of query_from_wordlist: every word is followed by the separator.
query_from_wordlist_trailing(wordlist) ==
    Flatten([k \in 1..Len(wordlist) |-> <<"+">> \o wordlist[k] \o <<SP>>])

query_from_wordlist(wordlist) ==
    join(<<SP>>, [k \in 1..Len(wordlist) |-> <<"+">> \o wordlist[k]])

----------------------------------------------------------------------------
(* xml.etree.ElementTree: a tree is the sequence of its nodes in document  *)
(* order; a node is [tag, text, tail, parent].                             *)

\* The tag argument of Element.iter() that selects every node.
AnyTag == "*"

\* The children of node n, in order.
Kids(t, n) ==
    SelectSeq([k \in 1..Len(t) |-> k], LAMBDA k : t[k].parent = n)

RECURSIVE iter(_, _, _)

\* A bug of iter: an element comes after its descendants.
iter_postorder(t, n, tag) ==
    LET kids == Kids(t, n)
    IN  Flatten([k \in 1..Len(kids) |-> iter(t, kids[k], tag)])
        \o (IF tag = AnyTag \/ t[n].tag = tag THEN <<n>> ELSE <<>>)

\* Element.iter(tag): n and its descendants in document order (depth first),
\* those tagged tag only.
iter(t, n, tag) ==
    LET kids == Kids(t, n)
    IN  (IF tag = AnyTag \/ t[n].tag = tag THEN <<n>> ELSE <<>>)
        \o Flatten([k \in 1..Len(kids) |-> iter(t, kids[k], tag)])

\* The truth value of an optional string: None and "" are false.
Truthy(s) == s # None /\ s # <<>>

RECURSIVE gettext(_, _)
RECURSIVE gettext_loop(_, _, _)

\* A bug of gettext: the tail of a child is added before the child's text.
gettext_tail_first(t, elem) ==
    LET kids == Kids(t, elem)
    IN  (IF Truthy(t[elem].text) THEN t[elem].text ELSE <<>>)
        \o Flatten([k \in 1..Len(kids) |->
              (IF Truthy(t[kids[k]].tail) THEN t[kids[k]].tail ELSE <<>>)
              \o gettext(t, kids[k])])

\* A bug of gettext: the element's own tail is added to its text.
gettext_own_tail(t, elem) ==
    gettext_loop(t, Kids(t, elem),
                 IF Truthy(t[elem].text) THEN t[elem].text ELSE <<>>)
    \o (IF Truthy(t[elem].tail) THEN t[elem].tail ELSE <<>>)

\* text = elem.text or ""; for subelem in elem: ...; return text
gettext(t, elem) ==
    gettext_loop(t, Kids(t, elem),
                 IF Truthy(t[elem].text) THEN t[elem].text ELSE <<>>)

\* The loop of gettext over the children still to visit.
gettext_loop(t, subelems, acc) ==
    IF subelems = <<>> THEN acc
    ELSE LET subelem == Head(subelems)
             acc1 == acc \o gettext(t, subelem)
             acc2 == IF Truthy(t[subelem].tail)
                     THEN acc1 \o t[subelem].tail ELSE acc1
         IN  gettext_loop(t, Tail(subelems), acc2)

\* The named character references the model's texts can hold.
Entities ==
    { <<<<"a", "m", "p">>, "&">>, <<<<"l", "t">>, "<">>, <<<<"g", "t">>, ">">> }

RECURSIVE html_unescape(_)
\* html.unescape: a reference &name, with or without its ';', becomes the
\* character it names; the text after it is scanned on, the result is not
\* scanned again.
html_unescape(s) ==
    IF s = <<>> THEN <<>>
    ELSE IF Head(s) = "&" /\ \E e \in Entities : StartsWith(Tail(s), e[1])
    THEN LET e == CHOOSE e \in Entities : StartsWith(Tail(s), e[1])
             after == Drop(Tail(s), Len(e[1]))
         IN  <<e[2]>> \o html_unescape(IF StartsWith(after, <<";">>)
                                        THEN Tail(after) ELSE after)
    ELSE <<Head(s)>> \o html_unescape(Tail(s))

CandidateTags == {"title", "headline", "passage"}

\* [elem.text for elem in doc.iter('lang')]
lang_texts(t, doc) ==
    LET ls == iter(t, doc, "lang") IN [k \in 1..Len(ls) |-> t[ls[k]].text]

\* A bug of get_all_passages: any 'lang' node of the document may say "en".
is_english_any(t, doc) ==
    \E k \in 1..Len(lang_texts(t, doc)) : lang_texts(t, doc)[k] = <<"e", "n">>

\* A bug of get_all_passages: a document without a 'lang' node is kept.
is_english_default(t, doc) ==
    lang_texts(t, doc) = <<>> \/ lang_texts(t, doc)[1] = <<"e", "n">>

\* The two conditions on the document's language (lines 94 and 96).
is_english(t, doc) ==
    lang_texts(t, doc) # <<>> /\ lang_texts(t, doc)[1] = <<"e", "n">>

\* A bug of get_all_passages: the language is looked up below the element
\* (element.iter('lang')) instead of below the document.
passage_entries_element_lang(t) ==
    LET docs == iter(t, 1, "doc")
        of_doc(doc) ==
            LET elems == iter(t, doc, AnyTag)
                kept == SelectSeq(elems, LAMBDA element :
                            /\ t[element].tag \in CandidateTags
                            /\ is_english(t, element))
            IN  [k \in 1..Len(kept) |-> [doc |-> doc, element |-> kept[k]]]
    IN  Flatten([d \in 1..Len(docs) |-> of_doc(docs[d])])

\* The appends of get_all_passages in order, each as the pair of the 'doc'
\* node of the outer loop and the element of the inner loop.
passage_entries(t) ==
    LET docs == iter(t, 1, "doc")
        of_doc(doc) ==
            LET elems == iter(t, doc, AnyTag)
                kept == SelectSeq(elems, LAMBDA element :
                            /\ t[element].tag \in CandidateTags
                            /\ is_english(t, doc))
            IN  [k \in 1..Len(kept) |-> [doc |-> doc, element |-> kept[k]]]
    IN  Flatten([d \in 1..Len(docs) |-> of_doc(docs[d])])

\* A bug of get_all_passages: an element without character data is left out.
get_all_passages_nonempty(t) ==
    LET es == passage_entries(t)
    IN  SelectSeq([k \in 1..Len(es) |-> html_unescape(gettext(t, es[k].element))],
                  LAMBDA s : s # <<>>)

\* The list get_all_passages returns.
get_all_passages(t) ==
    LET es == passage_entries(t)
    IN  [k \in 1..Len(es) |-> html_unescape(gettext(t, es[k].element))]

\* The first 'error' node's text, as line 144 takes it.
error_message(t) == t[iter(t, 1, "error")[1]].text

\* A bug of the error check: only the children of the root are looked at.
has_error_top_level(t) ==
    \E k \in 1..Len(Kids(t, 1)) : t[Kids(t, 1)[k]].tag = "error"

\* 'error' in [element.tag for element in tree.iter()]
has_error(t) ==
    LET all == iter(t, 1, AnyTag)
    IN  \E k \in 1..Len(all) : t[all[k]].tag = "error"

----------------------------------------------------------------------------
(* json.dumps(passages, ensure_ascii=False) *)

RECURSIVE json_escape(_)
json_escape(s) ==
    IF s = <<>> THEN <<>>
    ELSE (CASE Head(s) = "\"" -> <<"\\", "\"">>
            [] Head(s) = "\\" -> <<"\\", "\\">>
            [] Head(s) = NL   -> <<"\\", "n">>
            [] Head(s) = TAB  -> <<"\\", "t">>
            [] Head(s) = "\r" -> <<"\\", "r">>
            [] OTHER          -> <<Head(s)>>) \o json_escape(Tail(s))

json_dumps(strs) ==
    <<"[">>
    \o join(<<",", SP>>, [k \in 1..Len(strs) |-> <<"\"">> \o json_escape(strs[k]) \o <<"\"">>])
    \o <<"]">>

----------------------------------------------------------------------------
(* The response body and ElementTree.fromstring.  A body is a sequence of  *)
(* markup events: <<"<", tag>> opens an element, <<"</", tag>> closes one  *)
(* and <<"#", s>> is character data, with the references of XML already   *)
(* resolved.                                                               *)

Open(tag) == <<"<", tag>>
Close(tag) == <<"</", tag>>
Chars(s) == <<"#", s>>

\* What fromstring gives for a body that is not well-formed (it raises).
ParseError == <<[tag |-> "ParseError", text |-> None, tail |-> None, parent |-> 0]>>

\* (old or "") + s, the way the parser collects character data.
AddChars(old, s) == IF old = None THEN s ELSE old \o s

RECURSIVE parse_events(_, _, _, _)
\* The parser after some events: nodes built so far, the stack of open
\* elements (innermost first) and the element closed last at this level
\* (0 when none was closed since the last start tag).
parse_events(events, nodes, stack, last) ==
    IF events = <<>>
    THEN IF stack = <<>> /\ nodes # <<>> THEN nodes ELSE ParseError
    ELSE LET ev == Head(events)
             rest == Tail(events)
         IN  CASE ev[1] = "<" ->
                    IF stack = <<>> /\ nodes # <<>> THEN ParseError
                    ELSE parse_events(rest,
                            Append(nodes, [tag |-> ev[2], text |-> None, tail |-> None,
                                           parent |-> IF stack = <<>> THEN 0 ELSE Head(stack)]),
                            <<Len(nodes) + 1>> \o stack, 0)
               [] ev[1] = "</" ->
                    IF stack = <<>> \/ nodes[Head(stack)].tag # ev[2] THEN ParseError
                    ELSE parse_events(rest, nodes, Tail(stack), Head(stack))
               [] OTHER ->
                    IF stack = <<>> THEN ParseError
                    ELSE IF last = 0
                    THEN parse_events(rest,
                            [nodes EXCEPT ![Head(stack)].text = AddChars(@, ev[2])],
                            stack, last)
                    ELSE parse_events(rest,
                            [nodes EXCEPT ![last].tail = AddChars(@, ev[2])],
                            stack, last)

\* ElementTree.fromstring(response)
fromstring(body) == parse_events(body, <<>>, <<>>, 0)

----------------------------------------------------------------------------
(* The inputs of a run: the lines of the taxonomy file and the replies of  *)
(* the search provider.                                                    *)

Str_cat == <<"c", "a", "t">>
Str_dog == <<"d", "o", "g">>
Str_en == <<"e", "n">>
Str_ru == <<"r", "u">>

\* The lines a taxonomy file is made of: a line of white space only, a line
\* of one word, and a line of two words between a run of separators.
RawLines ==
    { <<SP, TAB, NL>>,
      Str_cat \o <<NL>>,
      <<SP>> \o Str_cat \o <<SP, TAB>> \o Str_dog \o <<NL>> }

RECURSIVE SeqsUpTo(_, _)
\* The sequences over S of length at most n.
SeqsUpTo(S, n) ==
    IF n = 0 THEN {<<>>}
    ELSE LET shorter == SeqsUpTo(S, n - 1)
         IN  shorter \cup {Append(q, x) : q \in {r \in shorter : Len(r) = n - 1}, x \in S}

InputFiles == SeqsUpTo(RawLines, MaxLines)

\* One English document with a headline.
Body_hello ==
    <<Open("yandexsearch"), Open("doc"),
      Open("lang"), Chars(Str_en), Close("lang"),
      Open("headline"), Chars(<<"H", "i">>), Close("headline"),
      Close("doc"), Close("yandexsearch")>>

\* A Russian document, then an English one whose passage holds markup, a
\* line break, a quote and a character reference.
Body_mixed ==
    <<Open("yandexsearch"),
      Open("doc"), Open("lang"), Chars(Str_ru), Close("lang"),
      Open("title"), Chars(<<"X">>), Close("title"), Close("doc"),
      Open("doc"), Open("lang"), Chars(Str_en), Close("lang"),
      Open("passage"), Chars(<<"A", SP>>), Open("b"), Chars(<<"B">>), Close("b"),
      Chars(<<NL, "\"", "&", "l", "t", ";">>), Close("passage"), Close("doc"),
      Close("yandexsearch")>>

\* A provider error as the root, around an English document.
Body_error_root ==
    <<Open("error"), Chars(<<"q", "u", "o", "t", "a">>),
      Open("doc"), Open("lang"), Chars(Str_en), Close("lang"),
      Open("title"), Chars(<<"H", "i">>), Close("title"), Close("doc"),
      Close("error")>>

\* Two provider errors: one without text inside an English document, after
\* its title, and a later one below the root.
Body_error_deep ==
    <<Open("yandexsearch"),
      Open("doc"), Open("lang"), Chars(Str_en), Close("lang"),
      Open("title"), Chars(<<"H", "i">>), Close("title"),
      Open("error"), Close("error"), Close("doc"),
      Open("error"), Chars(<<"l", "a", "t", "e">>), Close("error"),
      Close("yandexsearch")>>

\* A body cut off before its end.
Body_truncated == <<Open("yandexsearch"), Open("doc"), Open("title"), Chars(<<"H">>)>>

HTTP_OK == 200

\* The status codes of the failures the provider may answer with.
FailureCodes == {403, 500}

\* What the provider may answer to one request.
ProviderReplies ==
    {[status_code |-> HTTP_OK, content |-> b] :
        b \in {Body_hello, Body_mixed, Body_error_root, Body_error_deep, Body_truncated}}
    \cup {[status_code |-> c, content |-> <<>>] : c \in FailureCodes}

\* The credentials given on the command line.
User == "user"
Key == "key"

\* What the output file may hold before a run.
OldOutputs == {<<>>, <<"o", "l", "d", NL>>}

----------------------------------------------------------------------------
(* search *)

\* ElementTree.fromstring (line 139) of every body the provider sends,
\* computed once.
TreeOfBody == [body \in {reply.content : reply \in ProviderReplies} |-> fromstring(body)]

\* The trees the bodies parse to.
Trees == {TreeOfBody[body] : body \in DOMAIN TreeOfBody} \ {ParseError}

\* The error check (line 143) of every tree, computed once.
HasErrorOfTree == [t \in Trees |-> has_error(t)]

\* get_all_passages (line 151) of every tree, computed once.
PassagesOfTree == [t \in Trees |-> get_all_passages(t)]

\* A bug of search: the body is returned whatever the status.
search_result_any_status(reply) == [type |-> "bytes", value |-> reply.content]

\* The value search returns for the provider's reply (lines 57-60); type is
\* what Python's type() gives for it.
search_result(reply) ==
    IF reply.status_code = HTTP_OK
    THEN [type |-> "bytes", value |-> reply.content]
    ELSE [type |-> "int", value |-> reply.status_code]

\* The parameters of the request (lines 54-55).
request_params(q) == [l10n |-> "en", user |-> User, key |-> Key, text |-> q]

----------------------------------------------------------------------------
(* write_passages *)

ProgressEvery == 1000

Info(parts) == [level |-> "INFO", message |-> parts]
Error(parts) == [level |-> "ERROR", message |-> parts]

\* The positions at which a run has ended: the loop ran out of lines, one of
\* the two return statements was taken, or an exception left the function.
Ended == {"Completed", "Halted", "Raised"}

\* The history before the first run: opened says that this run has opened
\* the output file, got holds the provider's replies to this run; the first_
\* fields keep what the first run asked, received and left in the output file.
NoHistory ==
    [opened |-> FALSE, got |-> <<>>,
     first_requests |-> <<>>, first_got |-> <<>>, first_out |-> <<>>]

\* The value of response before search has returned.
NoResponse == [type |-> "none", value |-> <<>>]

Init ==
    /\ fs \in [input : InputFiles, provider : {ProviderReplies},
               in_readable : BOOLEAN, out_writable : BOOLEAN, out : OldOutputs]
    /\ pc = "Idle"
    /\ rerun = FALSE
    /\ node = 0
    /\ text = <<>>
    /\ hist = NoHistory
    /\ pos = 0
    /\ i = 0
    /\ word_list = <<>>
    /\ response = NoResponse
    /\ tree = <<>>
    /\ passages = <<>>
    /\ query = <<>>
    /\ out_open = FALSE
    /\ log = <<>>
    /\ requests = <<>>

\* A bug of line 117: the output file is opened for appending.
OpenOutput_append ==
    /\ pc = "Idle"
    /\ fs.out_writable
    /\ out_open' = TRUE
    /\ log' = log \o <<Info(<<"Searching Yandex for lines of ", "taxonomy_filename">>),
                       Info(<<"Writing results into ", "output_filename">>)>>
    /\ hist' = [hist EXCEPT !.opened = TRUE]
    /\ pc' = "Loop"
    /\ UNCHANGED <<fs, rerun, pos, i, word_list, response, tree, passages, node,
                   text, query, requests>>

\* Lines 115-121: the generator is made (its body has not run, the input
\* file is not opened yet) and the output file is opened for writing, which
\* empties it.
OpenOutput ==
    /\ pc = "Idle"
    /\ fs.out_writable
    /\ fs' = [fs EXCEPT !.out = <<>>]
    /\ out_open' = TRUE
    /\ log' = log \o <<Info(<<"Searching Yandex for lines of ", "taxonomy_filename">>),
                       Info(<<"Writing results into ", "output_filename">>)>>
    /\ hist' = [hist EXCEPT !.opened = TRUE]
    /\ pc' = "Loop"
    /\ UNCHANGED <<rerun, pos, i, word_list, response, tree, passages, node, text,
                   query, requests>>

\* Line 117 raises: the output file cannot be opened.
OpenOutputFails ==
    /\ pc = "Idle"
    /\ ~fs.out_writable
    /\ pc' = "Raised"
    /\ UNCHANGED <<fs, rerun, pos, i, word_list, response, tree, passages, node, text,
                   query, out_open, log, requests, hist>>

\* A bug of line 26: the failure to open the input file is taken for an
\* empty file.
OpenInputFails_swallowed ==
    /\ pc = "Loop"
    /\ ~fs.in_readable
    /\ out_open' = FALSE
    /\ log' = Append(log, Info(<<"Done">>))
    /\ pc' = "Completed"
    /\ UNCHANGED <<fs, rerun, pos, i, word_list, response, tree, passages, node, text,
                   query, requests, hist>>

\* A bug of line 117: the output file is opened without a with statement,
\* so the exception of line 26 leaves it open.
OpenInputFails_leak ==
    /\ pc = "Loop"
    /\ ~fs.in_readable
    /\ pc' = "Raised"
    /\ UNCHANGED <<fs, rerun, pos, i, word_list, response, tree, passages, node, text,
                   query, out_open, log, requests, hist>>

\* Line 123, first pass, when the generator's open (line 26) raises: the
\* with statement closes the output file and the exception leaves the call.
OpenInputFails ==
    /\ pc = "Loop"
    /\ ~fs.in_readable
    /\ out_open' = FALSE
    /\ pc' = "Raised"
    /\ UNCHANGED <<fs, rerun, pos, i, word_list, response, tree, passages, node, text,
                   query, log, requests, hist>>

\* A bug of lines 27-29: a line without words is not yielded.
NextLine_skip_blank ==
    /\ pc = "Loop"
    /\ fs.in_readable
    /\ pos < Len(fs.input)
    /\ pos' = pos + 1
    /\ IF words_of_line(fs.input[pos + 1]) = <<>>
       THEN /\ pc' = "Loop"
            /\ UNCHANGED <<i, word_list>>
       ELSE /\ word_list' = words_of_line(fs.input[pos + 1])
            /\ i' = Len(requests)
            /\ pc' = "Search"
    /\ UNCHANGED <<fs, rerun, response, tree, passages, node, text, query, out_open,
                   log, requests, hist>>

\* Line 123 with lines 27-29: the generator yields the words of the next
\* line and enumerate numbers it.
NextLine ==
    /\ pc = "Loop"
    /\ fs.in_readable
    /\ pos < Len(fs.input)
    /\ word_list' = words_of_line(fs.input[pos + 1])
    /\ i' = pos
    /\ pos' = pos + 1
    /\ pc' = "Search"
    /\ UNCHANGED <<fs, rerun, response, tree, passages, node, text, query, out_open,
                   log, requests, hist>>

\* Line 123 when the generator is exhausted, then the end of the with
\* statement and line 159.
Exhausted ==
    /\ pc = "Loop"
    /\ fs.in_readable
    /\ pos = Len(fs.input)
    /\ out_open' = FALSE
    /\ log' = Append(log, Info(<<"Done">>))
    /\ pc' = "Completed"
    /\ UNCHANGED <<fs, rerun, pos, i, word_list, response, tree, passages, node, text,
                   query, requests, hist>>

\* Lines 127-128 with search (lines 54-60): the query is built, one request
\* is sent and the provider answers.
Search ==
    /\ pc = "Search"
    /\ \E reply \in fs.provider :
          /\ query' = query_from_wordlist(word_list)
          /\ requests' = Append(requests, request_params(query'))
          /\ response' = search_result(reply)
          /\ hist' = [hist EXCEPT !.got = Append(@, reply)]
    /\ pc' = "Check"
    /\ UNCHANGED <<fs, rerun, pos, i, word_list, tree, passages, node, text, out_open, log>>

\* A bug of lines 132-136: the failing line is skipped and the loop goes on.
RequestFailed_continue ==
    /\ pc = "Check"
    /\ response.type = "int"
    /\ log' = Append(log, Error(<<"Request for line ", i + 1,
                                  " failed, status code ", response.value>>))
    /\ pc' = "Loop"
    /\ UNCHANGED <<fs, rerun, pos, i, word_list, response, tree, passages, node,
                   text, query, out_open, requests, hist>>

\* A bug of lines 132-136: the output written so far is thrown away.
RequestFailed_rollback ==
    /\ pc = "Check"
    /\ response.type = "int"
    /\ log' = log \o <<Error(<<"Request for line ", i + 1,
                               " failed, status code ", response.value>>),
                       Info(<<"Exiting">>)>>
    /\ fs' = [fs EXCEPT !.out = <<>>]
    /\ out_open' = FALSE
    /\ pc' = "Halted"
    /\ UNCHANGED <<rerun, pos, i, word_list, response, tree, passages, node,
                   text, query, requests, hist>>

\* A bug of lines 132-136: the request of the failing line is sent again.
RequestFailed_retry ==
    /\ pc = "Check"
    /\ response.type = "int"
    /\ log' = Append(log, Error(<<"Request for line ", i + 1,
                                  " failed, status code ", response.value>>))
    /\ pc' = "Search"
    /\ UNCHANGED <<fs, rerun, pos, i, word_list, response, tree, passages, node,
                   text, query, out_open, requests, hist>>

\* A bug of lines 132-136: 'break' for 'return', the run goes on to line 159.
RequestFailed_break ==
    /\ pc = "Check"
    /\ response.type = "int"
    /\ log' = log \o <<Error(<<"Request for line ", i + 1,
                                " failed, status code ", response.value>>),
                       Info(<<"Exiting">>), Info(<<"Done">>)>>
    /\ out_open' = FALSE
    /\ pc' = "Completed"
    /\ UNCHANGED <<fs, rerun, pos, i, word_list, response, tree, passages, node,
                   text, query, requests, hist>>

\* Lines 132-136: search returned a status code.
RequestFailed ==
    /\ pc = "Check"
    /\ response.type = "int"
    /\ log' = log \o <<Error(<<"Request for line ", i + 1,
                               " failed, status code ", response.value>>),
                       Info(<<"Exiting">>)>>
    /\ out_open' = FALSE
    /\ pc' = "Halted"
    /\ UNCHANGED <<fs, rerun, pos, i, word_list, response, tree, passages, node, text,
                   query, requests, hist>>

\* A bug of line 139: the parse failure is caught and reported like a
\* provider error.
ParseFails_halt ==
    /\ pc = "Check"
    /\ response.type # "int"
    /\ TreeOfBody[response.value] = ParseError
    /\ log' = log \o <<Error(<<"An error occurred at line ", i + 1, ": ", None>>),
                       Info(<<"Exiting">>)>>
    /\ out_open' = FALSE
    /\ pc' = "Halted"
    /\ UNCHANGED <<fs, rerun, pos, i, word_list, response, tree, passages, node, text,
                   query, requests, hist>>

\* Line 139 raises: the body is not well-formed.
ParseFails ==
    /\ pc = "Check"
    /\ response.type # "int"
    /\ TreeOfBody[response.value] = ParseError
    /\ out_open' = FALSE
    /\ pc' = "Raised"
    /\ UNCHANGED <<fs, rerun, pos, i, word_list, response, tree, passages, node, text,
                   query, log, requests, hist>>

\* Lines 139-148: the body parses and holds an 'error' node.
ProviderError ==
    /\ pc = "Check"
    /\ response.type # "int"
    /\ TreeOfBody[response.value] # ParseError
    /\ tree' = TreeOfBody[response.value]
    /\ HasErrorOfTree[tree']
    /\ log' = log \o <<Error(<<"An error occurred at line ", i + 1, ": ",
                               error_message(tree')>>),
                       Info(<<"Exiting">>)>>
    /\ out_open' = FALSE
    /\ pc' = "Halted"
    /\ UNCHANGED <<fs, rerun, pos, i, word_list, response, passages, node, text,
                   query, requests, hist>>

\* Lines 139-143: the body parses and holds no 'error' node.
Validated ==
    /\ pc = "Check"
    /\ response.type # "int"
    /\ TreeOfBody[response.value] # ParseError
    /\ tree' = TreeOfBody[response.value]
    /\ ~HasErrorOfTree[tree']
    /\ pc' = "Extract"
    /\ UNCHANGED <<fs, rerun, pos, i, word_list, response, passages, node, text,
                   query, out_open, log, requests, hist>>

\* A bug of line 153: the new line is put before the lines written so far.
WriteLine_prepend ==
    /\ pc = "Extract"
    /\ passages' = get_all_passages(tree)
    /\ fs' = [fs EXCEPT !.out = json_dumps(passages') \o <<NL>> \o @]
    /\ pc' = "Progress"
    /\ UNCHANGED <<rerun, pos, i, word_list, response, tree, node, text, query,
                   out_open, log, requests, hist>>

\* A bug of line 153: the line is kept back and written with the next one.
WriteLine_deferred ==
    /\ pc = "Extract"
    /\ passages' = get_all_passages(tree)
    /\ fs' = [fs EXCEPT !.out = IF i = 0 THEN @
                                ELSE @ \o json_dumps(passages) \o <<NL>>]
    /\ pc' = "Progress"
    /\ UNCHANGED <<rerun, pos, i, word_list, response, tree, node, text, query,
                   out_open, log, requests, hist>>

\* Lines 151-153: the passages are extracted and written as one line.
WriteLine ==
    /\ pc = "Extract"
    /\ passages' = PassagesOfTree[tree]
    /\ fs' = [fs EXCEPT !.out = @ \o json_dumps(passages') \o <<NL>>]
    /\ pc' = "Progress"
    /\ UNCHANGED <<rerun, pos, i, word_list, response, tree, node, text, query,
                   out_open, log, requests, hist>>

\* A bug of line 156: the lines are counted from one.
Progress_one_based ==
    /\ pc = "Progress"
    /\ log' = IF (i + 1) % ProgressEvery = 0
              THEN Append(log, Info(<<"Processed ", i, " lines">>))
              ELSE log
    /\ pc' = "Loop"
    /\ UNCHANGED <<fs, rerun, pos, i, word_list, response, tree, passages, node, text,
                   query, out_open, requests, hist>>

\* Lines 156-157.
Progress ==
    /\ pc = "Progress"
    /\ log' = IF i % ProgressEvery = 0
              THEN Append(log, Info(<<"Processed ", i, " lines">>))
              ELSE log
    /\ pc' = "Loop"
    /\ UNCHANGED <<fs, rerun, pos, i, word_list, response, tree, passages, node, text,
                   query, out_open, requests, hist>>

\* Lines 199-203 once more: the program is run a second time with the same
\* arguments.  What the first run received and left is kept in hist.
RunAgain ==
    /\ pc \in Ended
    /\ ~rerun
    /\ rerun' = TRUE
    /\ hist' = [opened |-> FALSE, got |-> <<>>, first_requests |-> requests,
                first_got |-> hist.got, first_out |-> fs.out]
    /\ pc' = "Idle"
    /\ pos' = 0
    /\ i' = 0
    /\ word_list' = <<>>
    /\ response' = NoResponse
    /\ tree' = <<>>
    /\ passages' = <<>>
    /\ query' = <<>>
    /\ out_open' = FALSE
    /\ log' = <<>>
    /\ requests' = <<>>
    /\ UNCHANGED <<fs, node, text>>

Next ==
    \/ OpenOutput
    \/ OpenOutputFails
    \/ OpenInputFails
    \/ NextLine
    \/ Exhausted
    \/ Search
    \/ RequestFailed
    \/ ParseFails
    \/ ProviderError
    \/ Validated
    \/ WriteLine
    \/ Progress
    \/ RunAgain

Spec == Init /\ [][Next]_vars

\* Lines 102-159: the steps of one call of write_passages.
write_passages ==
    \/ OpenOutput
    \/ OpenOutputFails
    \/ OpenInputFails
    \/ NextLine
    \/ Exhausted
    \/ Search
    \/ RequestFailed
    \/ ParseFails
    \/ ProviderError
    \/ Validated
    \/ WriteLine
    \/ Progress

\* A call that has started goes on while it has a step to take: the code is
\* sequential, every file operation and every search call returns.
SpecFair == Spec /\ WF_vars(write_passages)

\* One call on a taxonomy file of LongLines lines of one word, the provider
\* answering each request with the same document, a failure status, a
\* provider error or a body cut off.
InitLong ==
    /\ fs \in [input : {[k \in 1..LongLines |-> Str_cat \o <<NL>>]},
                provider : {{[status_code |-> HTTP_OK, content |-> Body_hello],
                             [status_code |-> HTTP_OK, content |-> Body_error_root],
                             [status_code |-> HTTP_OK, content |-> Body_truncated],
                             [status_code |-> 403, content |-> <<>>]}},
                in_readable : BOOLEAN, out_writable : BOOLEAN, out : {<<>>}]
    /\ pc = "Idle"
    /\ rerun = FALSE
    /\ pos = 0
    /\ i = 0
    /\ word_list = <<>>
    /\ response = NoResponse
    /\ tree = <<>>
    /\ passages = <<>>
    /\ node = 0
    /\ text = <<>>
    /\ query = <<>>
    /\ out_open = FALSE
    /\ log = <<>>
    /\ requests = <<>>
    /\ hist = NoHistory

SpecLong == InitLong /\ [][write_passages]_vars

----------------------------------------------------------------------------
(* The functions of the module called on their own, on every input of a    *)
(* bounded set.                                                            *)

\* The file system of a call that touches no file.
NoFiles ==
    [input |-> <<>>, provider |-> {}, in_readable |-> FALSE, out_writable |-> FALSE,
     out |-> <<>>]

\* The state that a call of a single function leaves alone.
Untouched ==
    /\ fs = NoFiles
    /\ rerun = FALSE
    /\ pos = 0
    /\ i = 0
    /\ response = NoResponse
    /\ out_open = FALSE
    /\ log = <<>>
    /\ requests = <<>>
    /\ hist = NoHistory

\* The tokens of a line: not empty, without space or tab.
Words == {Str_cat, Str_dog, <<"a">>, <<"+">>}

WordGroups == SeqsUpTo(Words, MaxWords)

InitQuery ==
    /\ Untouched
    /\ pc = "CallQuery"
    /\ word_list \in WordGroups
    /\ query = <<>>
    /\ tree = <<>>
    /\ passages = <<>>
    /\ node = 0
    /\ text = <<>>

\* query_from_wordlist(word_list)
CallQuery ==
    /\ pc = "CallQuery"
    /\ query' = query_from_wordlist(word_list)
    /\ pc' = "Returned"
    /\ UNCHANGED <<fs, rerun, pos, i, word_list, response, tree, passages, node,
                   text, out_open, log, requests, hist>>

NextQuery == CallQuery

SpecQuery == InitQuery /\ [][NextQuery]_vars

RECURSIVE AncestorsOrSelf(_, _)
\* Node k and the nodes above it, for the parents p.
AncestorsOrSelf(p, k) == IF k = 0 THEN {} ELSE {k} \cup AncestorsOrSelf(p, p[k])

RECURSIVE Shapes(_)
\* The parents of the trees of n nodes numbered in document order: a node
\* hangs below its predecessor or below one of the predecessor's ancestors.
Shapes(n) ==
    IF n = 1 THEN {<<0>>}
    ELSE LET smaller == Shapes(n - 1)
         IN  UNION {{Append(p, a) : a \in AncestorsOrSelf(p, n - 1)} : p \in smaller}

\* The tree of the nodes labelled l with the parents p.
MakeTree(l, p) ==
    [k \in 1..Len(p) |-> [tag |-> l[k].tag, text |-> l[k].text,
                           tail |-> l[k].tail, parent |-> p[k]]]

Label(tag, txt, tl) == [tag |-> tag, text |-> txt, tail |-> tl]

\* Elements with and without text, with and without tail.
TextLabels ==
    { Label("passage", <<"A", SP>>, None),
      Label("b", <<"B">>, <<SP, "C">>),
      Label("b", None, <<"D">>),
      Label("i", None, None),
      Label("passage", <<"E">>, <<"F">>) }

InitText ==
    /\ Untouched
    /\ pc = "CallGettext"
    /\ \E n \in 1..MaxNodes : \E p \in Shapes(n) : \E l \in [1..n -> TextLabels] :
          \* the parser gives the root no tail
          /\ l[1].tail = None
          /\ tree = MakeTree(l, p)
    /\ word_list = <<>>
    /\ query = <<>>
    /\ passages = <<>>
    /\ node = 0
    /\ text = <<>>

\* gettext(elem) for an element of the tree
CallGettext ==
    /\ pc = "CallGettext"
    /\ \E e \in 1..Len(tree) :
          /\ node' = e
          /\ text' = gettext(tree, e)
    /\ pc' = "Returned"
    /\ UNCHANGED <<fs, rerun, pos, i, word_list, response, tree, passages,
                   query, out_open, log, requests, hist>>

NextText == CallGettext

SpecText == InitText /\ [][NextText]_vars

\* Documents, language marks in and out of English, candidate elements with
\* and without text, and markup inside them.
DocLabels ==
    { Label("doc", None, None),
      Label("headline", None, None),
      Label("lang", Str_en, None),
      Label("lang", Str_ru, None),
      Label("title", <<"T">>, None),
      Label("passage", <<"P">>, <<"x">>),
      Label("b", <<"B">>, <<SP, "C">>) }

InitPassages ==
    /\ Untouched
    /\ pc = "CallPassages"
    /\ \E n \in 1..MaxNodes : \E p \in Shapes(n) : \E l \in [1..n -> DocLabels] :
          \* the parser gives the root no tail
          /\ l[1].tail = None
          /\ tree = MakeTree(l, p)
    /\ word_list = <<>>
    /\ query = <<>>
    /\ passages = <<>>
    /\ node = 0
    /\ text = <<>>

\* get_all_passages(tree)
CallGetAllPassages ==
    /\ pc = "CallPassages"
    /\ passages' = get_all_passages(tree)
    /\ pc' = "Returned"
    /\ UNCHANGED <<fs, rerun, pos, i, word_list, response, tree, node, text,
                   query, out_open, log, requests, hist>>

NextPassages == CallGetAllPassages

SpecPassages == InitPassages /\ [][NextPassages]_vars

----------------------------------------------------------------------------
(* What the claims speak of, said without the functions of the program.    *)

\* The number of lines of a file: the number of its line ends.
NumLines(content) == Cardinality({k \in 1..Len(content) : content[k] = NL})

RECURSIVE LinesOf(_, _)
\* The lines of a file without their line ends, cur being the line read so far.
LinesOf(content, cur) ==
    IF content = <<>> THEN (IF cur = <<>> THEN <<>> ELSE <<cur>>)
    ELSE IF Head(content) = NL THEN <<cur>> \o LinesOf(Tail(content), <<>>)
    ELSE LinesOf(Tail(content), Append(cur, Head(content)))

OutputLines == LinesOf(fs.out, <<>>)

IsPrefix(a, b) == Len(a) <= Len(b) /\ SubSeq(b, 1, Len(a)) = a

Last(q) == q[Len(q)]

\* The body has a start tag 'error'.
BodyHasError(body) == \E k \in 1..Len(body) : body[k] = Open("error")

\* The character data right after the first start tag 'error' of the body,
\* None when there is none.
FirstErrorText(body) ==
    LET k == CHOOSE k \in 1..Len(body) :
                 /\ body[k] = Open("error")
                 /\ \A j \in 1..(k - 1) : body[j] # Open("error")
    IN  IF k < Len(body) /\ body[k + 1][1] = "#" THEN body[k + 1][2] ELSE None

\* The reply makes its line fail: the status is not 200, the body is not
\* well-formed, or it reports an error.
FailingReplies ==
    {reply \in ProviderReplies :
        \/ reply.status_code # 200
        \/ fromstring(reply.content) = ParseError
        \/ BodyHasError(reply.content)}

ReplyFails(reply) == reply \in FailingReplies

\* The 1-based number of the first line of this run whose reply fails, 0
\* when no reply failed.
FirstFailure ==
    LET fails == [k \in 1..Len(hist.got) |-> ReplyFails(hist.got[k])]
    IN  IF \E k \in 1..Len(fails) : fails[k]
        THEN CHOOSE k \in 1..Len(fails) :
                 fails[k] /\ \A j \in 1..(k - 1) : ~fails[j]
        ELSE 0

\* The run has opened both of its files.
FilesOpened == hist.opened /\ fs.in_readable

----------------------------------------------------------------------------
\* C1: once a run has opened its output file, the file never holds more
\* lines than the run has consumed input lines; when the run has ended, it
\* holds as many lines as the input if no line failed, and otherwise as many
\* as the 0-based index of the first failing line, which is the index the
\* run stopped at.
ThmC1_LineCount ==
    /\ hist.opened => NumLines(fs.out) <= pos
    /\ (pc \in Ended /\ FilesOpened) =>
          LET first == FirstFailure
          IN  /\ first = 0 => (pc = "Completed" /\ NumLines(fs.out) = Len(fs.input))
              /\ first # 0 =>
                    (pc # "Completed" /\ NumLines(fs.out) = first - 1 /\ i = first - 1)

\* A run of two lines that stopped at the second line with one line written.
WitC1_HaltAtSecond ==
    /\ pc = "Halted"
    /\ Len(fs.input) = 2
    /\ FirstFailure = 2
    /\ NumLines(fs.out) = 1

\* The line to write for each body the provider may send: the JSON array of
\* the passages of the parsed body.
LineOfBody ==
    [b \in {r.content : r \in ProviderReplies} |->
        json_dumps(get_all_passages(fromstring(b)))]

\* C2: every line of the output of a run is the JSON array of the passages
\* of the reply to the request of the input line of the same number, and
\* that request carries the query of that line; a run that stopped on a
\* failure holds fewer lines than the input.
ThmC2_LineCorrespondence ==
    hist.opened =>
      LET lines == OutputLines
      IN  /\ Len(lines) <= Len(hist.got)
          /\ Len(requests) = Len(hist.got)
          /\ \A k \in 1..Len(requests) :
                requests[k].text = query_from_wordlist(words_of_line(fs.input[k]))
          /\ \A k \in 1..Len(lines) :
                /\ hist.got[k].status_code = 200
                /\ lines[k] = LineOfBody[hist.got[k].content]
                /\ hist.got[k].content = Body_hello =>
                      lines[k] = <<"[", "\"", "H", "i", "\"", "]">>
                /\ hist.got[k].content = Body_mixed =>
                      lines[k] =
                        <<"[", "\"", "A", SP, "B", "\\", "n", "\\", "\"", "<", "\"", "]">>
          /\ (pc \in {"Halted", "Raised"} /\ fs.in_readable) =>
                /\ Len(lines) < Len(fs.input)
                /\ Len(lines) = Len(hist.got) - 1

\* Two different input lines whose replies differ, both written, in order.
WitC2_TwoLinesInOrder ==
    /\ hist.opened
    /\ Len(OutputLines) = 2
    /\ hist.got[1].content = Body_mixed
    /\ hist.got[2].content = Body_hello
    /\ fs.input[1] # fs.input[2]

\* The last two records of the log.
LogTail == IF Len(log) < 2 THEN <<>> ELSE SubSeq(log, Len(log) - 1, Len(log))

\* C3: when the reply to the request of line k (the last request sent) has
\* a status other than 200, the run, once it has looked at the reply, is
\* halted: it has logged the failure with line number k and that status,
\* then 'Exiting'; it has consumed k lines and no more, sent k requests and
\* written k-1 lines, and the output file is closed.
ThmC3_TransportFailure ==
    (hist.got # <<>> /\ Last(hist.got).status_code # 200 /\ pc # "Check") =>
       LET k == Len(hist.got)
       IN  /\ pc = "Halted"
           /\ LogTail = <<Error(<<"Request for line ", k, " failed, status code ",
                                   Last(hist.got).status_code>>),
                          Info(<<"Exiting">>)>>
           /\ pos = k
           /\ Len(requests) = k
           /\ NumLines(fs.out) = k - 1
           /\ ~out_open

\* Success on line 1, then 403 on line 2: one output line and the failure
\* of line 2 with code 403 in the log.
WitC3_SecondLine403 ==
    /\ pc = "Halted"
    /\ Len(hist.got) = 2
    /\ hist.got[1].content = Body_hello
    /\ hist.got[2].status_code = 403
    /\ OutputLines = << <<"[", "\"", "H", "i", "\"", "]">> >>
    /\ \E k \in 1..Len(log) :
          log[k] = Error(<<"Request for line ", 2, " failed, status code ", 403>>)

\* C4: when the reply to the request of line k (the last request sent) has
\* status 200 and a well-formed body with an 'error' element anywhere, the
\* root included, the run, once it has looked at the reply, is halted: it
\* has logged the text of the first 'error' element with line number k,
\* then 'Exiting', and has written k-1 lines, whatever documents the body
\* holds.
ThmC4_ProviderError ==
    (/\ hist.got # <<>>
     /\ Last(hist.got).status_code = 200
     /\ fromstring(Last(hist.got).content) # ParseError
     /\ BodyHasError(Last(hist.got).content)
     /\ pc # "Check") =>
       LET k == Len(hist.got)
       IN  /\ pc = "Halted"
           /\ LogTail = <<Error(<<"An error occurred at line ", k, ": ",
                                   FirstErrorText(Last(hist.got).content)>>),
                          Info(<<"Exiting">>)>>
           /\ pos = k
           /\ NumLines(fs.out) = k - 1
           /\ ~out_open

\* An error element as the root of the reply to line 2, around an English
\* document: one line written, the message of the error logged.
WitC4_ErrorAtSecond ==
    /\ pc = "Halted"
    /\ Len(hist.got) = 2
    /\ hist.got[2].content = Body_error_root
    /\ NumLines(fs.out) = 1
    /\ \E k \in 1..Len(log) :
          log[k] = Error(<<"An error occurred at line ", 2, ": ",
                           <<"q", "u", "o", "t", "a">> >>)

----------------------------------------------------------------------------
(* Trees, said by the numbers of the nodes in document order.              *)

RECURSIVE NodeAncestors(_, _)
\* Node m and the nodes above it.
NodeAncestors(t, m) == IF m = 0 THEN {} ELSE {m} \cup NodeAncestors(t, t[m].parent)

\* Node n and the nodes below it.
Subtree(t, n) == {m \in 1..Len(t) : n \in NodeAncestors(t, m)}

Max(S) == CHOOSE x \in S : \A y \in S : y <= x

RECURSIVE Descending(_)
\* The numbers of S from the largest to the smallest.
Descending(S) == IF S = {} THEN <<>> ELSE <<Max(S)>> \o Descending(S \ {Max(S)})

\* An optional string as a string.
OrEmpty(s) == IF s = None THEN <<>> ELSE s

\* The tails of the elements of S, the innermost element first.
TailsOf(t, S) ==
    LET ds == Descending(S) IN Flatten([k \in 1..Len(ds) |-> OrEmpty(t[ds[k]].tail)])

\* The character data inside element e in the order of the document: the
\* text of every node of the subtree where the node starts, and the tail of
\* every node but e where the node ends.
DocOrderText(t, e) ==
    LET last == Max(Subtree(t, e))
        piece(m) ==
            (IF m = e THEN <<>>
             ELSE TailsOf(t, NodeAncestors(t, m - 1) \ NodeAncestors(t, m)))
            \o OrEmpty(t[m].text)
    IN  Flatten([k \in 1..(last - e + 1) |-> piece(e + k - 1)])
        \o TailsOf(t, NodeAncestors(t, last) \ NodeAncestors(t, e))

\* The first 'lang' node below d in document order says exactly "en".
EnglishDoc(t, d) ==
    \E m \in Subtree(t, d) :
        /\ t[m].tag = "lang"
        /\ t[m].text = Str_en
        /\ \A j \in Subtree(t, d) : j < m => t[j].tag # "lang"

\* The 'doc' nodes of the tree.
DocNodes(t) == {d \in 1..Len(t) : t[d].tag = "doc"}

\* The title, headline and passage nodes in and below d.
CandidatesOf(t, d) == {m \in Subtree(t, d) : t[m].tag \in {"title", "headline", "passage"}}

----------------------------------------------------------------------------
\* C5: in the result of get_all_passages no entry comes from a 'doc' node
\* whose first 'lang' node does not say exactly "en" or that has no 'lang'
\* node, however many title, headline and passage nodes it holds; a tree
\* with no English 'doc' node gives the empty list.
ThmC5_LanguageFilter ==
    pc = "Returned" =>
      LET es == passage_entries(tree)
      IN  /\ Len(passages) = Len(es)
          /\ \A k \in 1..Len(es) : EnglishDoc(tree, es[k].doc)
          /\ (\A d \in DocNodes(tree) : ~EnglishDoc(tree, d)) => passages = <<>>

\* A document marked "ru" that holds a document without a mark: the inner
\* one has a title, and the result is empty.
WitC5_RuAndUnmarked ==
    /\ pc = "Returned"
    /\ Len(tree) = 4
    /\ tree[1].tag = "doc" /\ tree[2].tag = "lang" /\ tree[2].text = Str_ru
    /\ tree[3].tag = "doc" /\ tree[3].parent = 1
    /\ tree[4].tag = "title" /\ tree[4].parent = 3
    /\ passages = <<>>

\* C6: gettext of an element is the character data inside the element in
\* document order: its own text, then for each child in order the child's
\* gettext and the child's tail; the element's own tail is left out.
ThmC6_Gettext ==
    pc = "Returned" => text = DocOrderText(tree, node)

\* <passage>A <b>B</b> C</passage> flattens to "A B C".
WitC6_ABC ==
    /\ pc = "Returned"
    /\ node = 1
    /\ Len(tree) = 2
    /\ tree[1].tag = "passage" /\ tree[1].text = <<"A", SP>>
    /\ tree[2].tag = "b" /\ tree[2].text = <<"B">> /\ tree[2].tail = <<SP, "C">>
    /\ text = <<"A", SP, "B", SP, "C">>

RECURSIVE QueryLen(_)
\* The length of the words of ws with one marker and one separator each.
QueryLen(ws) == IF ws = <<>> THEN 0 ELSE Len(Head(ws)) + 2 + QueryLen(Tail(ws))

\* C7: the query holds the words in their order, each right after a '+',
\* with one space between a word and the next '+' and nothing else: no
\* space before the first '+' or after the last word; ["cat","dog"] gives
\* "+cat +dog" and no word gives the empty string.
ThmC7_Query ==
    pc = "Returned" =>
      LET n == Len(word_list)
          start(k) == 1 + QueryLen(SubSeq(word_list, 1, k - 1))
      IN  /\ Len(query) = IF n = 0 THEN 0 ELSE QueryLen(word_list) - 1
          /\ \A k \in 1..n :
                /\ query[start(k)] = "+"
                /\ SubSeq(query, start(k) + 1, start(k) + Len(word_list[k])) = word_list[k]
                /\ k < n => query[start(k) + Len(word_list[k]) + 1] = SP
          /\ word_list = <<Str_cat, Str_dog>> =>
                query = <<"+", "c", "a", "t", SP, "+", "d", "o", "g">>
          /\ word_list = <<>> => query = <<>>

\* The query of ["cat", "dog"].
WitC7_CatDog ==
    /\ pc = "Returned"
    /\ word_list = <<Str_cat, Str_dog>>
    /\ query = <<"+", "c", "a", "t", SP, "+", "d", "o", "g">>

----------------------------------------------------------------------------
\* The queries of the two runs with the replies they got.
Exchanges ==
    {<<hist.first_requests[k].text, hist.first_got[k]>> : k \in 1..Len(hist.first_got)}
    \cup {<<requests[k].text, hist.got[k]>> : k \in 1..Len(hist.got)}

\* The provider has answered as a function of the query.
Deterministic == \A a, b \in Exchanges : a[1] = b[1] => a[2] = b[2]

\* C8: when the second run on the same input has ended and the provider has
\* given the same reply to the same query throughout both runs, the output
\* file holds exactly what the first run left in it, whatever it held
\* before the runs.
ThmC8_Idempotent ==
    (rerun /\ pc \in Ended /\ Deterministic) => fs.out = hist.first_out

\* A second run that has written again the two lines the first run left.
WitC8_SecondRunSame ==
    /\ rerun
    /\ pc = "Completed"
    /\ Deterministic
    /\ NumLines(hist.first_out) = 2
    /\ fs.out = hist.first_out

\* C9: from the opening of the output file by a run on, every step of the
\* run leaves the content of the file as the beginning of the new content
\* and adds whole lines only; no failure takes a written line back.
ThmC9_AppendOnly ==
    [][(hist.opened /\ hist'.opened) =>
          /\ IsPrefix(fs.out, fs'.out)
          /\ fs'.out # <<>> => Last(fs'.out) = NL]_vars

\* A run that has failed after it wrote a line: the line is still there.
WitC9_LineSurvivesFailure ==
    /\ pc \in {"Halted", "Raised"}
    /\ hist.opened
    /\ Len(hist.got) = 2
    /\ OutputLines = <<LineOfBody[hist.got[1].content]>>

\* C10: the lines are processed one after the other: a request is sent for
\* line k+1 only when k lines are written, and at most one line is consumed
\* and not yet written.
ThmC10_Sequential ==
    hist.opened =>
      /\ Len(requests) <= NumLines(fs.out) + 1
      /\ pos <= NumLines(fs.out) + 1
      /\ pc = "Search" => (NumLines(fs.out) = i /\ Len(requests) = i /\ pos = i + 1)
      /\ pc \in {"Loop", "Completed"} => pos = NumLines(fs.out)

\* The request of the second line is about to be sent with the first line
\* written.
WitC10_SecondRequest ==
    /\ pc = "Search"
    /\ i = 1
    /\ Len(requests) = 1
    /\ NumLines(fs.out) = 1

----------------------------------------------------------------------------
\* The number of lines this run has written to the output file.
Written == IF hist.opened THEN NumLines(fs.out) ELSE 0

\* C11 as stated: when a run has ended, it has sent as many requests as it
\* wrote lines, and one more if it stopped on an error of any kind.
OrigC11_RequestCount ==
    pc \in Ended =>
      Len(requests) = Written + (IF pc \in {"Halted", "Raised"} THEN 1 ELSE 0)

\* C11 amended: one request is sent for every line consumed and never a
\* second one for a line; when a run has ended, it has sent as many requests
\* as it wrote lines, and one more if it stopped on a failing line, which is
\* then the last line consumed and the last line asked for; a run stopped by
\* a file that cannot be opened has sent none.
ThmC11_OneRequestPerLine ==
    /\ Len(requests) = (IF pc = "Search" THEN pos - 1 ELSE pos)
    /\ Len(requests) = Len(hist.got)
    /\ \A k \in 1..Len(requests) :
          requests[k] = [l10n |-> "en", user |-> User, key |-> Key,
                         text |-> query_from_wordlist(words_of_line(fs.input[k]))]
    /\ pc \in Ended =>
          LET first == FirstFailure
          IN  /\ Len(requests) = Written + (IF first # 0 THEN 1 ELSE 0)
              /\ first # 0 => (pos = first /\ pc \in {"Halted", "Raised"})
              /\ first = 0 => pc \in {"Completed", "Raised"}
              /\ (first = 0 /\ pc = "Raised") =>
                    (requests = <<>> /\ (~fs.in_readable \/ ~fs.out_writable))

\* A run stopped by a failure on its second line: two requests, one line.
WitC11_TwoRequestsOneLine ==
    /\ pc = "Halted"
    /\ Len(requests) = 2
    /\ Written = 1
    /\ FirstFailure = 2

----------------------------------------------------------------------------
\* The run has no step left to take.
RunOver == ~ENABLED write_passages

Logged(record) == \E k \in 1..Len(log) : log[k] = record

\* Input exhausted, every input line processed and written, 'Done' logged.
CompletedState ==
    /\ FilesOpened
    /\ pos = Len(fs.input)
    /\ NumLines(fs.out) = Len(fs.input)
    /\ Logged(Info(<<"Done">>))

\* First error encountered, 'Exiting' logged and 'Done' not logged.
HaltedState ==
    /\ FirstFailure # 0
    /\ Logged(Info(<<"Exiting">>))
    /\ ~Logged(Info(<<"Done">>))

\* The run was ended by an exception: neither 'Exiting' nor 'Done' logged.
RaisedState ==
    /\ ~Logged(Info(<<"Exiting">>))
    /\ ~Logged(Info(<<"Done">>))
    /\ \/ ~fs.out_writable /\ ~hist.opened
       \/ hist.opened /\ ~fs.in_readable
       \/ /\ FirstFailure # 0
          /\ Last(hist.got).status_code = HTTP_OK
          /\ fromstring(Last(hist.got).content) = ParseError

\* C12 as stated, the part a finite run refutes: a run that has no step
\* left is in one of the two terminal states Completed and Halted.
OrigC12_TwoTerminalStates == RunOver => (CompletedState \/ HaltedState)

\* C12 amended: a run that goes on while it can ends, and it ends in exactly
\* one of three ways: Completed (input exhausted, every line processed and
\* written, 'Done' logged), Halted (first transport failure or provider
\* error, 'Exiting' logged and 'Done' not) or by an exception (a file that
\* cannot be opened or a body that does not parse; neither 'Exiting' nor
\* 'Done' logged); a run that has ended takes no further step.
ThmC12_Termination ==
    /\ (pc = "Idle") ~> RunOver
    /\ [](RunOver <=> pc \in Ended)
    /\ [](pc = "Completed" => (CompletedState /\ ~HaltedState /\ ~RaisedState))
    /\ [](pc = "Halted" => (HaltedState /\ ~CompletedState /\ ~RaisedState))
    /\ [](pc = "Raised" => (RaisedState /\ ~CompletedState /\ ~HaltedState))
    /\ [][(pc \in Ended) => RunAgain]_vars

\* A run ended by the exception of a body that does not parse.
WitC12_EndedByException ==
    /\ RunOver
    /\ pc = "Raised"
    /\ FirstFailure = 1
    /\ ~CompletedState /\ ~HaltedState

----------------------------------------------------------------------------
\* C13: when the body of the reply to line k (the last request sent) has
\* status 200 and does not parse, the run, once it has looked at the reply,
\* has been left by the exception: no error is logged, neither 'Exiting'
\* nor 'Done' is logged, k lines are consumed, the output file is closed and
\* holds the k-1 lines of the replies before.
ThmC13_ParseFailure ==
    (/\ hist.got # <<>>
     /\ Last(hist.got).status_code = HTTP_OK
     /\ TreeOfBody[Last(hist.got).content] = ParseError
     /\ pc # "Check") =>
       LET k == Len(hist.got)
       IN  /\ pc = "Raised"
           /\ \A j \in 1..Len(log) : log[j].level # "ERROR"
           /\ ~Logged(Info(<<"Exiting">>))
           /\ ~Logged(Info(<<"Done">>))
           /\ pos = k
           /\ ~out_open
           /\ OutputLines = [j \in 1..(k - 1) |-> LineOfBody[hist.got[j].content]]

\* Success on line 1, then a body cut off on line 2: the run is left by the
\* exception with the line of the first reply in the output file.
WitC13_SecondLineTruncated ==
    /\ pc = "Raised"
    /\ Len(hist.got) = 2
    /\ hist.got[1].content = Body_hello
    /\ hist.got[2] = [status_code |-> HTTP_OK, content |-> Body_truncated]
    /\ OutputLines = << <<"[", "\"", "H", "i", "\"", "]">> >>
    /\ Len(log) = 3

----------------------------------------------------------------------------
\* The positions of a run inside the with statement of line 117.
Running == {"Loop", "Search", "Check", "Extract", "Progress"}

\* C14: the output file is open exactly while the run is inside its with
\* statement; in every final state (completed, halted by a transport
\* failure or a provider error, left by the exception of a parse failure or
\* of a file that cannot be opened) it is closed.
ThmC14_OutputClosed ==
    /\ out_open <=> pc \in Running
    /\ pc \in Ended => ~out_open
    /\ RunOver => ~out_open
    /\ out_open => (hist.opened /\ fs.out_writable)

\* The run was left by the failure to open the input file, after it had
\* opened the output file, and the output file is closed.
WitC14_ClosedAfterInputOpenFailure ==
    /\ pc = "Raised"
    /\ hist.opened
    /\ ~fs.in_readable
    /\ ~out_open

----------------------------------------------------------------------------
\* The line holds white space only.
IsBlank(line) == \A c \in 1..Len(line) : line[c] \in Whitespace

\* C17: a line of white space only is not skipped.  When it is the line
\* just consumed, the word list is empty and the index is its line number
\* less one; once asked for, its request is the k-th request and carries the
\* empty query; once its reply was written, the reply's line is the k-th
\* line of the output file; and when a run over a file with such a line has
\* completed, the output file has as many lines as the input file.
ThmC17_BlankLine ==
    \A k \in 1..pos :
       IsBlank(fs.input[k]) =>
          /\ (k = pos /\ pc = "Search") => (word_list = <<>> /\ i = k - 1)
          /\ (k < pos \/ pc # "Search") =>
                /\ Len(requests) >= k
                /\ requests[k].text = <<>>
                /\ k <= NumLines(fs.out) =>
                      OutputLines[k] = LineOfBody[hist.got[k].content]
                /\ (k < pos \/ pc \in {"Progress", "Loop", "Completed"}) =>
                      NumLines(fs.out) >= k
          /\ pc = "Completed" => NumLines(fs.out) = Len(fs.input)

\* A blank first line and a line of one word, both answered and written.
WitC17_BlankThenCat ==
    /\ pc = "Completed"
    /\ Len(fs.input) = 2
    /\ IsBlank(fs.input[1])
    /\ ~IsBlank(fs.input[2])
    /\ requests[1].text = <<>>
    /\ requests[2].text = <<"+">> \o Str_cat
    /\ hist.got[1].content = Body_mixed
    /\ OutputLines = <<LineOfBody[Body_mixed], LineOfBody[hist.got[2].content]>>

----------------------------------------------------------------------------
\* C18: when the input file or the output file cannot be opened, no input
\* line is consumed, no request is sent and no line is written: the output
\* file is as the run found it, or empty once the run has opened it; the
\* run does not get past the start of its loop and it ends by the
\* exception, with neither progress nor 'Done' logged.
ThmC18_OpenFailure ==
    (~fs.in_readable \/ ~fs.out_writable) =>
       /\ pos = 0
       /\ requests = <<>>
       /\ hist.got = <<>>
       /\ word_list = <<>>
       /\ Written = 0
       /\ hist.opened => fs.out = <<>>
       /\ (~hist.opened /\ rerun) => fs.out = hist.first_out
       /\ (~hist.opened /\ ~rerun) => fs.out \in OldOutputs
       /\ hist.opened <=> (fs.out_writable /\ pc # "Idle")
       /\ pc \in {"Idle", "Loop", "Raised"}
       /\ RunOver <=> pc = "Raised"
       /\ \A k \in 1..Len(log) :
             /\ log[k] # Info(<<"Done">>)
             /\ log[k].message[1] # "Processed "

\* The output file cannot be opened: the run has ended without reading any
\* of the two lines of its input and the old output is as it was.
WitC18_OutputNotWritable ==
    /\ pc = "Raised"
    /\ ~fs.out_writable
    /\ fs.in_readable
    /\ Len(fs.input) = 2
    /\ fs.out = <<"o", "l", "d", NL>>
    /\ pos = 0
    /\ requests = <<>>

----------------------------------------------------------------------------
\* The variant of get_all_passages that checks the language once for every
\* 'doc' node, before the walk over the document's elements, and then
\* appends every title, headline and passage of the walk.
get_all_passages_once_per_doc(t) ==
    LET docs == iter(t, 1, "doc")
        of_doc(doc) ==
            IF is_english(t, doc)
            THEN LET wanted == SelectSeq(iter(t, doc, AnyTag),
                                         LAMBDA element : t[element].tag \in CandidateTags)
                 IN  [k \in 1..Len(wanted) |-> html_unescape(gettext(t, wanted[k]))]
            ELSE <<>>
    IN  Flatten([d \in 1..Len(docs) |-> of_doc(docs[d])])

\* C15: for every tree, get_all_passages returns the list that the variant
\* with one language check for every 'doc' node returns.
ThmC15_CheckOncePerDoc ==
    pc = "Returned" => passages = get_all_passages_once_per_doc(tree)

\* An English document with two candidates, for which the code checks the
\* language twice: both are returned.
WitC15_TwoCandidates ==
    /\ pc = "Returned"
    /\ Len(tree) = 4
    /\ tree[1].tag = "doc"
    /\ tree[2].tag = "lang" /\ tree[2].text = Str_en /\ tree[2].parent = 1
    /\ tree[3].tag = "title" /\ tree[3].parent = 1
    /\ tree[4].tag = "passage" /\ tree[4].parent = 1
    /\ passages = << <<"T">>, <<"P">> >>
    /\ get_all_passages_once_per_doc(tree) = << <<"T">>, <<"P">> >>

----------------------------------------------------------------------------
\* The pairs of an English 'doc' node and a title, headline or passage node
\* in or below it.  Nodes are numbered in document order, which is the order
\* of the depth-first walk.
EnglishPairs(t) ==
    {p \in (1..Len(t)) \X (1..Len(t)) :
        /\ p[1] \in DocNodes(t)
        /\ EnglishDoc(t, p[1])
        /\ p[2] \in CandidatesOf(t, p[1])}

\* Pair a comes before pair b: its document comes first, or the document is
\* the same and its element comes first.
PairBefore(a, b) == a[1] < b[1] \/ (a[1] = b[1] /\ a[2] < b[2])

RECURSIVE InPairOrder(_)
\* The pairs of S from the first to the last.
InPairOrder(S) ==
    IF S = {} THEN <<>>
    ELSE LET first == CHOOSE a \in S : \A b \in S \ {a} : PairBefore(a, b)
         IN  <<first>> \o InPairOrder(S \ {first})

\* C16: a passage that comes before another in the result comes from a
\* 'doc' node that comes before the other's in document order, or from the
\* same 'doc' node and an element met earlier in the walk of that document;
\* the result is the texts of the elements of the pairs in that order.
ThmC16_Order ==
    pc = "Returned" =>
      LET es == passage_entries(tree)
          pairs == InPairOrder(EnglishPairs(tree))
      IN  /\ \A a, b \in 1..Len(es) :
                a < b => PairBefore(<<es[a].doc, es[a].element>>,
                                    <<es[b].doc, es[b].element>>)
          /\ passages = [k \in 1..Len(pairs) |->
                            html_unescape(DocOrderText(tree, pairs[k][2]))]

\* A passage that holds a title: the walk meets the passage first, so the
\* text of the passage, which includes the title's, comes before the title.
WitC16_NestedWalk ==
    /\ pc = "Returned"
    /\ Len(tree) = 4
    /\ tree[1].tag = "doc"
    /\ tree[2].tag = "lang" /\ tree[2].text = Str_en /\ tree[2].parent = 1
    /\ tree[3].tag = "passage" /\ tree[3].parent = 1
    /\ tree[4].tag = "title" /\ tree[4].parent = 3
    /\ passages = << <<"P", "T">>, <<"T">> >>

----------------------------------------------------------------------------
\* C20: the entries of the result are, one for one, the pairs of an English
\* 'doc' node and a title, headline or passage node in or below it: no pair
\* gives two entries and every pair gives one, so an element below two
\* English 'doc' nodes is there twice, an element without character data
\* gives the empty string, equal texts stay apart, and the length of the
\* result is the number of the pairs.
ThmC20_OneEntryPerPair ==
    pc = "Returned" =>
      LET es == passage_entries(tree)
          pairs == EnglishPairs(tree)
      IN  /\ {<<es[k].doc, es[k].element>> : k \in 1..Len(es)} = pairs
          /\ \A a, b \in 1..Len(es) : es[a] = es[b] => a = b
          /\ Len(passages) = Cardinality(pairs)
          /\ \A k \in 1..Len(passages) :
                /\ k <= Len(es)
                /\ passages[k] = html_unescape(DocOrderText(tree, es[k].element))

\* A headline without text below two nested English documents: the empty
\* string, twice.
WitC20_EmptyTwice ==
    /\ pc = "Returned"
    /\ Len(tree) = 4
    /\ tree[1].tag = "doc"
    /\ tree[2].tag = "doc" /\ tree[2].parent = 1
    /\ tree[3].tag = "lang" /\ tree[3].text = Str_en /\ tree[3].parent = 2
    /\ tree[4] = [tag |-> "headline", text |-> None, tail |-> None, parent |-> 2]
    /\ passages = << <<>>, <<>> >>

----------------------------------------------------------------------------
\* The progress records of the log, in order.
ProgressLog == SelectSeq(log, LAMBDA r : r.message[1] = "Processed ")

\* The number of lines of this run whose progress step (lines 156-157) has
\* been taken: the lines written, less the one just written.
Reported == Written - (IF pc = "Progress" THEN 1 ELSE 0)

\* C19: the progress records of the log are, in order and once each, those
\* of the line indexes i with i mod 1000 = 0 among the lines whose progress
\* step has been taken, the index 0 included; and the progress step does
\* nothing but log: whether it logs or not, it goes back to the head of the
\* loop and leaves the files, the requests, the replies and every variable
\* of the run as they are, so that a run without it sends the same
\* requests, writes the same file and ends in the same way.
ThmC19_Progress ==
    /\ [](ProgressLog =
             [k \in 1..((Reported + ProgressEvery - 1) \div ProgressEvery) |->
                 Info(<<"Processed ", ProgressEvery * (k - 1), " lines">>)])
    /\ [][pc = "Progress" =>
             /\ pc' = "Loop"
             /\ log' \in {log, Append(log, Info(<<"Processed ", i, " lines">>))}
             /\ UNCHANGED <<fs, rerun, pos, i, word_list, response, tree, passages,
                            node, text, query, out_open, requests, hist>>]_vars

\* Line 0 was written and reported, line 1 was written and its progress
\* step has been taken without a record.
WitC19_SecondLineSilent ==
    /\ pc = "Loop"
    /\ pos = 2
    /\ i = 1
    /\ Written = 2
    /\ ProgressLog = <<Info(<<"Processed ", 0, " lines">>)>>
    /\ Len(fs.input) > ProgressEvery

====
